---------------------------- MODULE Spec2Model ----------------------------
(***************************************************************************)
(* The python-cli template of baileyrd/naner: a click group `main` with    *)
(* the three commands hello, info and list-items, printing through a rich  *)
(* Console.  One behaviour of the model is a sequence of invocations of    *)
(* main (a process run, or CliRunner.invoke in tests/test_cli.py).         *)
(*                                                                         *)
(* Text is a sequence of one-character strings, so that what click does to *)
(* an argument (int conversion) and what rich does to a printed string     *)
(* (console markup) are computed character by character.                   *)
(*                                                                         *)
(* Not modelled: soft wrapping at the console width (every line here is    *)
(* far shorter than the 80 columns of a non-terminal console), rich's      *)
(* emoji codes (the alphabet of the inputs has no ':'), the colours        *)
(* themselves, and the borders and padding of the table.                   *)
(***************************************************************************)
EXTENDS Integers, Sequences, FiniteSets

VARIABLES
    build,      \* the installed click: "click8.1" or "click8.2"
    argv,       \* the arguments main() was invoked with
    pc,         \* "main", the command whose context is being made, or "exit"
    rest,       \* the arguments handed to the resolved command
    params,     \* the parameters click bound: name, count, items
    ran,        \* the command function whose body was entered, or "none"
    stdout,     \* the lines written to standard output
    stderr,     \* the messages written to standard error
    exit_code,  \* -1 while running, then the exit status
    runs        \* the number of invocations so far

vars == <<build, argv, pc, rest, params, ran, stdout, stderr, exit_code, runs>>

-----------------------------------------------------------------------------
(* Bounds of the model. *)

MaxNameLen == 3     \* longest --name value drawn from MarkupAlphabet
MaxCount == 3       \* --count values are drawn from -MaxCount..MaxCount
MaxArgs == 3        \* longest free sequence of tokens after the command
MaxRuns == 2        \* invocations in one behaviour

-----------------------------------------------------------------------------
(* Text helpers. *)

Digits == <<"0","1","2","3","4","5","6","7","8","9">>

LowerAlpha ==
    {"a","b","c","d","e","f","g","h","i","j","k","l","m",
     "n","o","p","q","r","s","t","u","v","w","x","y","z"}

SetMin(S) == CHOOSE x \in S : \A y \in S : x <= y

SeqUpTo(S, n) == UNION {[1..k -> S] : k \in 0..n}

RECURSIVE NatStr(_)
NatStr(n) ==
    IF n < 10 THEN <<Digits[n + 1]>>
    ELSE NatStr(n \div 10) \o <<Digits[(n % 10) + 1]>>

\* str(i) of a Python int: the f-string conversion of {i}.
IntStr(n) == IF n < 0 THEN <<"-">> \o NatStr(-n) ELSE NatStr(n)

IsDigit(c) == \E d \in 1..10 : Digits[d] = c

DigitVal(c) == (CHOOSE d \in 1..10 : Digits[d] = c) - 1

RECURSIVE NatVal(_, _)
NatVal(s, acc) ==
    IF s = << >> THEN acc ELSE NatVal(Tail(s), 10 * acc + DigitVal(Head(s)))

Unsigned(tok) ==
    IF Len(tok) > 0 /\ tok[1] \in {"+", "-"} THEN Tail(tok) ELSE tok

\* A faulty conversion, used to test the sensitivity of C5: the check that
\* at least one digit is present is missing.
IntParsesEmptyOk(tok) ==
    \A i \in 1..Len(Unsigned(tok)) : IsDigit(Unsigned(tok)[i])

\* click.INT (the type click infers from default=1) converts with int(value):
\* an optional sign followed by at least one digit.
IntParses(tok) ==
    /\ Len(Unsigned(tok)) > 0
    /\ \A i \in 1..Len(Unsigned(tok)) : IsDigit(Unsigned(tok)[i])

IntValue(tok) ==
    IF Len(tok) > 0 /\ tok[1] = "-" THEN 0 - NatVal(Unsigned(tok), 0)
    ELSE NatVal(Unsigned(tok), 0)

-----------------------------------------------------------------------------
(* rich console markup: what console.print does to the string it is given. *)
(* A tag is '[' + one of a-z # / @ + any characters but '[' + the first    *)
(* ']'; a run of backslashes before a tag escapes it when the run is odd.  *)

TagStart == LowerAlpha \cup {"#", "/", "@"}

\* The index of the ']' that ends a tag opening at m[q], or 0 if none does.
TagEnd(m, q) ==
    IF q + 1 > Len(m) \/ m[q] # "[" \/ m[q + 1] \notin TagStart THEN 0
    ELSE LET stops == {j \in (q + 2)..Len(m) : m[j] \in {"[", "]"}}
         IN  IF stops = {} THEN 0
             ELSE IF m[SetMin(stops)] = "]" THEN SetMin(stops) ELSE 0

RECURSIVE EscRun(_, _)
EscRun(m, p) ==
    IF p <= Len(m) /\ m[p] = "\\" THEN 1 + EscRun(m, p + 1) ELSE 0

Backslashes(n) == [i \in 1..n |-> "\\"]

\* Style.normalize of a tag name: the names that occur here ("bold green",
\* "yellow", "bold", and the tags the input alphabet can spell) are already
\* in normal form.
Normalize(tagname) == tagname

\* The index of the innermost open tag named n, or 0.
OpenIndex(stack, n) ==
    LET hits == {i \in 1..Len(stack) : stack[i] = n}
    IN  IF hits = {} THEN 0 ELSE CHOOSE i \in hits : \A j \in hits : j <= i

Without(stack, i) == SubSeq(stack, 1, i - 1) \o SubSeq(stack, i + 1, Len(stack))

\* rich.markup.render: the plain text of the markup m, or a MarkupError
\* (ok = FALSE) on a closing tag that closes nothing.
RECURSIVE Render(_, _, _, _)
Render(m, p, stack, out) ==
    IF p > Len(m) THEN [ok |-> TRUE, text |-> out]
    ELSE
      LET k == EscRun(m, p)
          q == p + k
          e == TagEnd(m, q)
      IN
      IF e = 0 THEN
          \* plain text; "\[" is replaced by "["
          IF m[p] = "\\" /\ p < Len(m) /\ m[p + 1] = "["
          THEN Render(m, p + 2, stack, Append(out, "["))
          ELSE Render(m, p + 1, stack, Append(out, m[p]))
      ELSE IF k % 2 = 1 THEN
          \* an escaped tag is text
          Render(m, e + 1, stack,
                 out \o Backslashes(k \div 2) \o SubSeq(m, q, e))
      ELSE
          LET tag  == SubSeq(m, q + 1, e - 1)
              out2 == out \o Backslashes(k \div 2)
          IN
          IF tag[1] = "/" THEN
              IF Len(tag) > 1 THEN
                  \* [/name] closes the innermost open tag of that name
                  LET i == OpenIndex(stack, Normalize(Tail(tag)))
                  IN  IF i = 0 THEN [ok |-> FALSE, text |-> out2]
                      ELSE Render(m, e + 1, Without(stack, i), out2)
              ELSE
                  \* [/] closes the innermost open tag
                  IF stack = << >> THEN [ok |-> FALSE, text |-> out2]
                  ELSE Render(m, e + 1, Without(stack, Len(stack)), out2)
          ELSE Render(m, e + 1, Append(stack, Normalize(tag)), out2)

RenderMarkup(m) == Render(m, 1, << >>, << >>)

\* The console: the lines printed so far, and whether a print has raised.
NewConsole == [out |-> << >>, ok |-> TRUE]

\* console.print(markup): one more line, or MarkupError and nothing printed.
ConsolePrint(con, markup) ==
    IF ~con.ok THEN con
    ELSE IF RenderMarkup(markup).ok
         THEN [out |-> Append(con.out, RenderMarkup(markup).text), ok |-> TRUE]
         ELSE [out |-> con.out, ok |-> FALSE]

-----------------------------------------------------------------------------
(* click: the commands main registers and the parsing of their arguments.  *)

\* The functions decorated with @main.command().
CommandFunctions == {<<"h","e","l","l","o">>, <<"i","n","f","o">>, <<"l","i","s","t","_","i","t","e","m","s">>}

\* A faulty naming, used to test the sensitivity of C7: the function name
\* is registered as it is.
CommandNameRaw(fn) == fn

\* click names a command after its function, with '_' replaced by '-'.
CommandName(fn) == [i \in DOMAIN fn |-> IF fn[i] = "_" THEN "-" ELSE fn[i]]

\* main.get_command: the function registered under exactly this name.
GetCommand(tok) == {fn \in CommandFunctions : CommandName(fn) = tok}

\* A faulty registry, used to test the sensitivity of C6: info and
\* list_items are registered under each other's name.
PcOfSwapped(fn) ==
    IF fn = <<"h","e","l","l","o">> THEN "hello"
    ELSE IF fn = <<"i","n","f","o">> THEN "list_items" ELSE "info"

\* The value of pc while fn's context is made and fn is invoked.
PcOf(fn) ==
    IF fn = <<"h","e","l","l","o">> THEN "hello"
    ELSE IF fn = <<"i","n","f","o">> THEN "info" ELSE "list_items"

\* Another version string, used to test the sensitivity of C8.
VersionOld == <<"0",".","0",".","1">>

Version == <<"0",".","1",".","0">>

DefaultName == <<"W","o","r","l","d">>

DefaultCount == 1

OptVersion == <<"-","-","v","e","r","s","i","o","n">>
OptHelp == <<"-","-","h","e","l","p">>
OptName == <<"-","-","n","a","m","e">>
OptCount == <<"-","-","c","o","u","n","t">>
DashDash == <<"-","-">>

\* click's OptionParser: options that take a value (takes), flags, and
\* positional arguments, which end the options unless interspersed.
\* err is "" or the usage error raised while the tokens are read.
RECURSIVE ParseArgs(_, _, _, _, _, _)
ParseArgs(rargs, takes, flags, interspersed, opts, largs) ==
    IF rargs = << >> THEN [err |-> "", opts |-> opts, largs |-> largs]
    ELSE
      LET arg == Head(rargs) IN
      IF arg = DashDash
      THEN [err |-> "", opts |-> opts, largs |-> largs \o Tail(rargs)]
      ELSE IF Len(arg) > 1 /\ arg[1] = "-" THEN
          IF arg \in takes THEN
              IF Tail(rargs) = << >>
              THEN [err |-> "requires an argument", opts |-> opts, largs |-> largs]
              ELSE ParseArgs(Tail(Tail(rargs)), takes, flags, interspersed,
                             Append(opts, [opt |-> arg, val |-> rargs[2]]), largs)
          ELSE IF arg \in flags THEN
              ParseArgs(Tail(rargs), takes, flags, interspersed,
                        Append(opts, [opt |-> arg, val |-> << >>]), largs)
          ELSE [err |-> "No such option", opts |-> opts, largs |-> largs]
      ELSE IF interspersed THEN
          ParseArgs(Tail(rargs), takes, flags, interspersed, opts, Append(largs, arg))
      ELSE [err |-> "", opts |-> opts, largs |-> largs \o rargs]

Given(opts, o) == \E i \in 1..Len(opts) : opts[i].opt = o

\* A repeated option keeps its last value.
LastValue(opts, o) ==
    opts[CHOOSE i \in 1..Len(opts) :
            /\ opts[i].opt = o
            /\ \A j \in 1..Len(opts) : opts[j].opt = o => j <= i].val

\* The first line of a command's help and its docstring.
MainHelp ==
    <<<<"U","s","a","g","e",":"," ","m","a","i","n"," ","[","O","P","T","I","O","N","S","]"," ","C","O","M","M","A","N","D"," ","[","A","R","G","S","]",".",".",".">>,
      <<"{","{","P","R","O","J","E","C","T","_","N","A","M","E","}","}"," ","-"," ","A"," ","p","o","w","e","r","f","u","l"," ","C","L","I"," ","t","o","o","l",".">>>>

HelloHelp == <<<<"U","s","a","g","e",":"," ","m","a","i","n"," ","h","e","l","l","o"," ","[","O","P","T","I","O","N","S","]">>, <<"G","r","e","e","t"," ","s","o","m","e","o","n","e",".">>>>

InfoHelp == <<<<"U","s","a","g","e",":"," ","m","a","i","n"," ","i","n","f","o"," ","[","O","P","T","I","O","N","S","]">>, <<"D","i","s","p","l","a","y"," ","p","r","o","j","e","c","t"," ","i","n","f","o","r","m","a","t","i","o","n",".">>>>

ListItemsHelp ==
    <<<<"U","s","a","g","e",":"," ","m","a","i","n"," ","l","i","s","t","-","i","t","e","m","s"," ","[","O","P","T","I","O","N","S","]"," ","[","I","T","E","M","S","]",".",".",".">>,
      <<"L","i","s","t"," ","i","t","e","m","s"," ","p","r","o","v","i","d","e","d"," ","a","s"," ","a","r","g","u","m","e","n","t","s",".">>>>

\* click.version_option: "%(prog)s, version %(version)s".
VersionMessage == <<"m","a","i","n",","," ","v","e","r","s","i","o","n"," ">> \o Version

\* UsageError.show: the usage line and the error, on standard error.
UsageError(help, msg) == <<help[1], <<"E","r","r","o","r",":"," ">> \o msg>>

NoParams == [name |-> << >>, count |-> 0, items |-> << >>]

-----------------------------------------------------------------------------
(* The command bodies. *)

\* A faulty loop bound, used to test the sensitivity of C10: a negative
\* count repeats |count| times.
RangeLenAbs(count) == IF count > 0 THEN count ELSE 0 - count

\* range(count) runs max(0, count) times.
RangeLen(count) == IF count > 0 THEN count ELSE 0

\* A faulty greeting, used to test the sensitivity of C1: the comma is
\* missing.
HelloMarkupNoComma(name) == <<"[","b","o","l","d"," ","g","r","e","e","n","]","H","e","l","l","o"," ">> \o name \o <<"!","[","/","b","o","l","d"," ","g","r","e","e","n","]">>

HelloMarkup(name) == <<"[","b","o","l","d"," ","g","r","e","e","n","]","H","e","l","l","o",","," ">> \o name \o <<"!","[","/","b","o","l","d"," ","g","r","e","e","n","]">>

RECURSIVE HelloLoop(_, _, _)
HelloLoop(con, name, n) ==
    IF n = 0 THEN con
    ELSE HelloLoop(ConsolePrint(con, HelloMarkup(name)), name, n - 1)

HelloBody(name, count) == HelloLoop(NewConsole, name, RangeLen(count))

\* rich.table.Table: title, column headers, rows.
Table(title) == [title |-> title, columns |-> << >>, rows |-> << >>]

AddColumn(t, header) == [t EXCEPT !.columns = Append(@, header)]

AddRow(t, cells) == [t EXCEPT !.rows = Append(@, cells)]

RECURSIVE JoinCells(_)
JoinCells(cells) ==
    IF cells = << >> THEN << >>
    ELSE IF Len(cells) = 1 THEN RenderMarkup(cells[1]).text
    ELSE RenderMarkup(cells[1]).text \o <<" ","|"," ">> \o JoinCells(Tail(cells))

\* console.print(table): the title, the header row, then the rows in the
\* order they were added; cells of a row in column order.
PrintTable(con, t) ==
    [out |-> con.out \o <<RenderMarkup(t.title).text, JoinCells(t.columns)>>
                     \o [i \in 1..Len(t.rows) |-> JoinCells(t.rows[i])],
     ok |-> con.ok]

ProjectName == <<"{","{","P","R","O","J","E","C","T","_","N","A","M","E","}","}">>

\* A faulty table, used to test the sensitivity of C9: the Version row is
\* added before the Name row.
InfoTableSwapped ==
    AddRow(AddRow(AddRow(AddColumn(AddColumn(Table(ProjectName \o <<" ","I","n","f","o">>),
        <<"P","r","o","p","e","r","t","y">>), <<"V","a","l","u","e">>),
        <<<<"V","e","r","s","i","o","n">>, <<"0",".","1",".","0">>>>),
        <<<<"N","a","m","e">>, ProjectName>>),
        <<<<"D","e","s","c","r","i","p","t","i","o","n">>, <<"A"," ","C","L","I"," ","t","o","o","l"," ","b","u","i","l","t"," ","w","i","t","h"," ","P","y","t","h","o","n">>>>)

InfoTable ==
    AddRow(AddRow(AddRow(AddColumn(AddColumn(Table(ProjectName \o <<" ","I","n","f","o">>),
        <<"P","r","o","p","e","r","t","y">>), <<"V","a","l","u","e">>),
        <<<<"N","a","m","e">>, ProjectName>>),
        <<<<"V","e","r","s","i","o","n">>, <<"0",".","1",".","0">>>>),
        <<<<"D","e","s","c","r","i","p","t","i","o","n">>, <<"A"," ","C","L","I"," ","t","o","o","l"," ","b","u","i","l","t"," ","w","i","t","h"," ","P","y","t","h","o","n">>>>)

InfoBody == PrintTable(NewConsole, InfoTable)

ItemMarkup(i, item) == <<" "," ">> \o IntStr(i) \o <<"."," ">> \o item

RECURSIVE ListLoop(_, _, _)
ListLoop(con, items, i) ==
    IF i > Len(items) THEN con
    ELSE ListLoop(ConsolePrint(con, ItemMarkup(i, items[i])), items, i + 1)

\* A faulty body, used to test the sensitivity of C4: the return after the
\* "no items" message is missing.
ListItemsBodyNoReturn(items) ==
    ListLoop(ConsolePrint(
                 IF items = << >>
                 THEN ConsolePrint(NewConsole, <<"[","y","e","l","l","o","w","]","N","o"," ","i","t","e","m","s"," ","p","r","o","v","i","d","e","d","!","[","/","y","e","l","l","o","w","]">>)
                 ELSE NewConsole,
                 <<"[","b","o","l","d","]","I","t","e","m","s",":","[","/","b","o","l","d","]">>), items, 1)

ListItemsBody(items) ==
    IF items = << >>
    THEN ConsolePrint(NewConsole, <<"[","y","e","l","l","o","w","]","N","o"," ","i","t","e","m","s"," ","p","r","o","v","i","d","e","d","!","[","/","y","e","l","l","o","w","]">>)
    ELSE ListLoop(ConsolePrint(NewConsole, <<"[","b","o","l","d","]","I","t","e","m","s",":","[","/","b","o","l","d","]">>), items, 1)

\* An exception that escapes the body ends the process with a traceback
\* and status 1.
Traceback == <<<<"T","r","a","c","e","b","a","c","k"," ","(","m","o","s","t"," ","r","e","c","e","n","t"," ","c","a","l","l"," ","l","a","s","t",")",":">>, <<"r","i","c","h",".","e","r","r","o","r","s",".","M","a","r","k","u","p","E","r","r","o","r">>>>

-----------------------------------------------------------------------------
(* The invocations. *)

Builds == {"click8.1", "click8.2"}

\* Characters of the --name values: a letter and the characters console
\* markup gives a meaning to.
MarkupAlphabet == {"a", "[", "]", "/", "\\"}

Names == SeqUpTo(MarkupAlphabet, MaxNameLen)

CountTokens ==
    {IntStr(n) : n \in (0 - MaxCount)..MaxCount}
        \cup {<<"a","b","c">>, << >>, <<"-">>, <<"1","a">>, <<"+","2">>, <<"1",".","5">>}

\* Root tokens: the options of main, an unknown option, the three command
\* names, and words that name no command.  Every word starts with a letter
\* and no root invocation here contains "--".
RootTokens ==
    {OptVersion, OptHelp, <<"-","-","b","o","g","u","s">>,
     <<"h","e","l","l","o">>, <<"i","n","f","o">>, <<"l","i","s","t","-","i","t","e","m","s">>, <<"g","r","e","e","t">>, <<"l","i","s","t","_","i","t","e","m","s">>}

HelloTokens == {OptName, OptCount, OptHelp, <<"2">>, <<"a","b","c">>, <<"a">>, <<"[","a","]">>}

ItemTokens ==
    {<<"a">>, <<"b">>, <<"[","a","]">>, <<"[","/","a","]">>, <<"\\","[","a","]">>, DashDash, OptHelp, <<"-","x">>}

Inputs ==
    SeqUpTo(RootTokens, MaxArgs)
    \cup {<<<<"h","e","l","l","o">>>> \o t : t \in SeqUpTo(HelloTokens, MaxArgs)}
    \cup {<<<<"h","e","l","l","o">>, OptName, s>> : s \in Names}
    \cup {<<<<"h","e","l","l","o">>, OptCount, c>> : c \in CountTokens}
    \cup {<<<<"h","e","l","l","o">>, OptName, s, OptCount, c>> :
             s \in SeqUpTo(MarkupAlphabet, 1), c \in CountTokens}
    \cup {<<<<"h","e","l","l","o">>, OptCount, c, OptName, s>> :
             s \in SeqUpTo(MarkupAlphabet, 1), c \in CountTokens}
    \cup {<<<<"l","i","s","t","-","i","t","e","m","s">>>> \o t : t \in SeqUpTo(ItemTokens, MaxArgs)}

\* The invocations of tests/test_cli.py.
TestInvocations ==
    {<<<<"h","e","l","l","o">>>>,
     <<<<"h","e","l","l","o">>, OptName, <<"P","y","t","h","o","n">>>>,
     <<<<"h","e","l","l","o">>, OptCount, <<"3">>>>,
     <<<<"i","n","f","o">>>>,
     <<<<"l","i","s","t","-","i","t","e","m","s">>, <<"a","p","p","l","e">>, <<"b","a","n","a","n","a">>, <<"c","h","e","r","r","y">>>>}

Init ==
    /\ build \in Builds
    /\ argv \in Inputs
    /\ pc = "main"
    /\ rest = << >>
    /\ params = NoParams
    /\ ran = "none"
    /\ stdout = << >>
    /\ stderr = << >>
    /\ exit_code = -1
    /\ runs = 1

\* The process ends: what it wrote, its status, and the body it entered.
Exit(code, out, err, body, bound) ==
    /\ pc' = "exit"
    /\ exit_code' = code
    /\ stdout' = out
    /\ stderr' = err
    /\ ran' = body
    /\ params' = bound
    /\ UNCHANGED <<build, argv, rest, runs>>

\* The outcome of a body that printed through the console con.
Returned(con, body, bound) ==
    IF con.ok THEN Exit(0, con.out, << >>, body, bound)
    ELSE Exit(1, con.out, Traceback, body, bound)

\* main(): the group parses its own options, then resolves the command.
main ==
    /\ pc = "main"
    /\ LET p == ParseArgs(argv, {}, {OptVersion, OptHelp}, FALSE, << >>, << >>)
       IN
       IF argv = << >> THEN
           \* no_args_is_help: help and exit 0 up to click 8.1,
           \* NoArgsIsHelpError (status 2, help on stderr) from click 8.2
           IF build = "click8.1"
           THEN Exit(0, MainHelp, << >>, "none", NoParams)
           ELSE Exit(2, << >>, MainHelp, "none", NoParams)
       ELSE IF p.err # "" THEN
           Exit(2, << >>, UsageError(MainHelp, p.err), "none", NoParams)
       ELSE IF p.opts # << >> THEN
           \* eager options run in the order given; the first one exits
           IF p.opts[1].opt = OptVersion
           THEN Exit(0, <<VersionMessage>>, << >>, "none", NoParams)
           ELSE Exit(0, MainHelp, << >>, "none", NoParams)
       ELSE IF p.largs = << >> THEN
           Exit(2, << >>, UsageError(MainHelp, "Missing command"), "none", NoParams)
       ELSE IF GetCommand(p.largs[1]) = {} THEN
           Exit(2, << >>, UsageError(MainHelp, "No such command"), "none", NoParams)
       ELSE
           /\ pc' = PcOf(CHOOSE fn \in GetCommand(p.largs[1]) : TRUE)
           /\ rest' = Tail(p.largs)
           /\ UNCHANGED <<build, argv, params, ran, stdout, stderr, exit_code, runs>>

\* hello(name, count)
hello ==
    /\ pc = "hello"
    /\ LET p == ParseArgs(rest, {OptName, OptCount}, {OptHelp}, TRUE, << >>, << >>)
           name == IF Given(p.opts, OptName) THEN LastValue(p.opts, OptName)
                   ELSE DefaultName
           count == IF Given(p.opts, OptCount)
                    THEN IntValue(LastValue(p.opts, OptCount))
                    ELSE DefaultCount
           bound == [NoParams EXCEPT !.name = name, !.count = count]
       IN
       IF p.err # "" THEN
           Exit(2, << >>, UsageError(HelloHelp, p.err), "none", NoParams)
       ELSE IF Given(p.opts, OptHelp) THEN
           Exit(0, HelloHelp, << >>, "none", NoParams)
       ELSE IF Given(p.opts, OptCount) /\ ~IntParses(LastValue(p.opts, OptCount)) THEN
           Exit(2, << >>, UsageError(HelloHelp, "Invalid value for '--count'"),
                "none", NoParams)
       ELSE IF p.largs # << >> THEN
           Exit(2, << >>, UsageError(HelloHelp, "Got unexpected extra argument"),
                "none", NoParams)
       ELSE Returned(HelloBody(name, count), "hello", bound)

\* info()
info ==
    /\ pc = "info"
    /\ LET p == ParseArgs(rest, {}, {OptHelp}, TRUE, << >>, << >>) IN
       IF p.err # "" THEN
           Exit(2, << >>, UsageError(InfoHelp, p.err), "none", NoParams)
       ELSE IF Given(p.opts, OptHelp) THEN
           Exit(0, InfoHelp, << >>, "none", NoParams)
       ELSE IF p.largs # << >> THEN
           Exit(2, << >>, UsageError(InfoHelp, "Got unexpected extra argument"),
                "none", NoParams)
       ELSE Returned(InfoBody, "info", NoParams)

\* list_items(items)
list_items ==
    /\ pc = "list_items"
    /\ LET p == ParseArgs(rest, {}, {OptHelp}, TRUE, << >>, << >>) IN
       IF p.err # "" THEN
           Exit(2, << >>, UsageError(ListItemsHelp, p.err), "none", NoParams)
       ELSE IF Given(p.opts, OptHelp) THEN
           Exit(0, ListItemsHelp, << >>, "none", NoParams)
       ELSE Returned(ListItemsBody(p.largs), "list_items",
                     [NoParams EXCEPT !.items = p.largs])

\* runner.invoke(main, [...]): the next test invokes main afresh.
invoke ==
    /\ pc = "exit"
    /\ runs < MaxRuns
    /\ argv' \in TestInvocations
    /\ pc' = "main"
    /\ rest' = << >>
    /\ params' = NoParams
    /\ ran' = "none"
    /\ stdout' = << >>
    /\ stderr' = << >>
    /\ exit_code' = -1
    /\ runs' = runs + 1
    /\ UNCHANGED build

Next == main \/ hello \/ info \/ list_items \/ invoke

Spec == Init /\ [][Next]_vars

-----------------------------------------------------------------------------
(* The claims.  The specification calls the hello command "greet"; except  *)
(* in C6, which is about the names themselves, a claim about greet is      *)
(* stated of the hello command.                                            *)

Exited == pc = "exit"

Max(a, b) == IF a >= b THEN a ELSE b

IsPrefix(p, s) == Len(p) <= Len(s) /\ SubSeq(s, 1, Len(p)) = p

\* C1: for every n in 0..MaxCount, `hello --count n` without --name prints
\* exactly n lines, each exactly "Hello, World!", and exits with status 0.
C1_CountLines ==
    \A n \in 0..MaxCount :
        (Exited /\ argv = <<<<"h","e","l","l","o">>, OptCount, IntStr(n)>>) =>
            /\ stdout = [i \in 1..n |-> <<"H","e","l","l","o",","," ","W","o","r","l","d","!">>]
            /\ exit_code = 0

C1_Witness ==
    /\ Exited
    /\ argv = <<<<"h","e","l","l","o">>, OptCount, IntStr(MaxCount)>>
    /\ Len(stdout) = MaxCount
    /\ exit_code = 0

\* C2: for every non-empty name s, markup-like text such as "[a]" included,
\* `hello --name s` prints exactly the one line "Hello, s!", s verbatim, and
\* exits with status 0.
C2_NameVerbatim ==
    \A s \in Names \ {<< >>} :
        (Exited /\ argv = <<<<"h","e","l","l","o">>, OptName, s>>) =>
            /\ stdout = <<<<"H","e","l","l","o",","," ">> \o s \o <<"!">>>>
            /\ exit_code = 0

\* C3: list-items with k >= 1 items exits with status 0 after printing k+1
\* lines: the header "Items:", then for each i in 1..k a line numbered i for
\* the i-th item.
C3_ItemLines ==
    (Exited /\ ran = "list_items" /\ params.items # << >>) =>
        /\ exit_code = 0
        /\ Len(stdout) = Len(params.items) + 1
        /\ stdout[1] = <<"I","t","e","m","s",":">>
        /\ \A i \in 1..Len(params.items) :
               IsPrefix(<<" "," ">> \o IntStr(i) \o <<"."," ">>, stdout[i + 1])

\* C4: list-items without items prints the single line "No items provided!"
\* (no header, no numbered line) and exits with status 0; with at least one
\* item that line is never printed.
C4_NoItems ==
    /\ (Exited /\ argv = <<<<"l","i","s","t","-","i","t","e","m","s">>>>) =>
           ran = "list_items" /\ params.items = << >>
    /\ (Exited /\ ran = "list_items" /\ params.items = << >>) =>
           stdout = <<<<"N","o"," ","i","t","e","m","s"," ","p","r","o","v","i","d","e","d","!">>>> /\ exit_code = 0
    /\ (Exited /\ ran = "list_items" /\ params.items # << >>) =>
           \A i \in 1..Len(stdout) : stdout[i] # <<"N","o"," ","i","t","e","m","s"," ","p","r","o","v","i","d","e","d","!">>

C4_Witness ==
    /\ Exited
    /\ argv = <<<<"l","i","s","t","-","i","t","e","m","s">>>>
    /\ stdout = <<<<"N","o"," ","i","t","e","m","s"," ","p","r","o","v","i","d","e","d","!">>>>

\* The invocations of hello whose only options are --count c and, before or
\* after it, at most one --name.
HelloWithCount(c) ==
    \/ argv = <<<<"h","e","l","l","o">>, OptCount, c>>
    \/ Len(argv) = 5 /\ SubSeq(argv, 1, 2) = <<<<"h","e","l","l","o">>, OptName>>
                     /\ SubSeq(argv, 4, 5) = <<OptCount, c>>
    \/ Len(argv) = 5 /\ SubSeq(argv, 1, 3) = <<<<"h","e","l","l","o">>, OptCount, c>>
                     /\ argv[4] = OptName

\* C5: hello with a --count value that is no integer exits with a non-zero
\* status, prints no greeting line, and never enters the body of hello.
C5_BadCount ==
    \A c \in {<<"a","b","c">>, << >>, <<"-">>, <<"1","a">>, <<"1",".","5">>} :
        (Exited /\ HelloWithCount(c)) =>
            /\ exit_code # 0
            /\ stdout = << >>
            /\ ran = "none"

C5_Witness ==
    /\ Exited
    /\ argv = <<<<"h","e","l","l","o">>, OptCount, <<"a","b","c">>>>
    /\ exit_code = 2
    /\ ran = "none"

\* The words of RootTokens, and those that name no command.
Words == {<<"h","e","l","l","o">>, <<"i","n","f","o">>, <<"l","i","s","t","-","i","t","e","m","s">>, <<"g","r","e","e","t">>, <<"l","i","s","t","_","i","t","e","m","s">>}

\* C6 as stated: the first token runs a handler exactly when it is one of
\* greet, info, list-items.
C6_SpecNames ==
    \A t \in Words :
        (Exited /\ argv = <<t>>) =>
            (ran # "none" <=> t \in {<<"g","r","e","e","t">>, <<"i","n","f","o">>, <<"l","i","s","t","-","i","t","e","m","s">>})

\* C6, amended: the first token runs a handler exactly when it is one of
\* hello, info, list-items, by exact match, and then each name runs its own
\* handler (hello, info, list_items respectively) and no other.
C6_CommandNames ==
    \A t \in Words :
        /\ (Exited /\ argv # << >> /\ argv[1] = t /\ ran # "none") =>
               \/ t = <<"h","e","l","l","o">> /\ ran = "hello"
               \/ t = <<"i","n","f","o">> /\ ran = "info"
               \/ t = <<"l","i","s","t","-","i","t","e","m","s">> /\ ran = "list_items"
        /\ (Exited /\ argv = <<t>> /\ t \in {<<"h","e","l","l","o">>, <<"i","n","f","o">>, <<"l","i","s","t","-","i","t","e","m","s">>}) =>
               ran # "none"

C6_Witness ==
    /\ Exited
    /\ argv = <<<<"l","i","s","t","-","i","t","e","m","s">>>>
    /\ ran = "list_items"

UnknownWords == {<<"g","r","e","e","t">>, <<"l","i","s","t","_","i","t","e","m","s">>}

HelpPrinted == MainHelp \in {stdout, stderr}

\* C7 as stated: an unknown subcommand, and no subcommand at all, each print
\* usage or help, run no command body and exit with a non-zero status.
C7_NonZero ==
    (Exited /\ (argv = << >> \/ (argv # << >> /\ argv[1] \in UnknownWords))) =>
        /\ exit_code # 0
        /\ ran = "none"
        /\ stdout \o stderr # << >>

\* C7, amended: an unknown subcommand prints the usage line and an error on
\* standard error, runs no body and exits with status 2; an invocation
\* without arguments prints the help and runs no body, with status 0 under
\* click up to 8.1 and status 2 from click 8.2.
C7_HelpOrError ==
    /\ (Exited /\ argv # << >> /\ argv[1] \in UnknownWords) =>
           /\ exit_code = 2
           /\ ran = "none"
           /\ stdout = << >>
           /\ Len(stderr) = 2 /\ stderr[1] = MainHelp[1]
    /\ (Exited /\ argv = << >>) =>
           /\ ran = "none"
           /\ HelpPrinted
           /\ exit_code = IF build = "click8.1" THEN 0 ELSE 2

C7_Witness ==
    /\ Exited
    /\ argv = << >>
    /\ build = "click8.1"
    /\ exit_code = 0
    /\ stdout = MainHelp

IsSuffix(s, t) == Len(s) <= Len(t) /\ SubSeq(t, Len(t) - Len(s) + 1, Len(t)) = s

VersionPrinted ==
    /\ exit_code = 0
    /\ Len(stdout) = 1 /\ IsSuffix(<<","," ","v","e","r","s","i","o","n"," ","0",".","1",".","0">>, stdout[1])
    /\ ran = "none"

\* C8 as stated: an invocation whose first token is --version prints the
\* version, exits with status 0 and runs no body, whatever tokens follow.
C8_VersionAlways ==
    (Exited /\ argv # << >> /\ argv[1] = OptVersion) => VersionPrinted

\* Every option-like token before the first positional token is --version
\* or --help.
OnlyRootOptions ==
    \A i \in 1..Len(argv) :
        (\A j \in 1..i : argv[j][1] = "-") => argv[i] \in {OptVersion, OptHelp}

\* C8, amended: an invocation whose first token is --version prints the
\* version, exits with status 0 and runs no body, whatever positional
\* tokens follow, provided every option before the first positional token
\* is an option of main (--version, --help).
C8_VersionFirst ==
    (Exited /\ argv # << >> /\ argv[1] = OptVersion /\ OnlyRootOptions) =>
        VersionPrinted

C8_Witness ==
    /\ Exited
    /\ argv = <<OptVersion, <<"h","e","l","l","o">>>>
    /\ VersionPrinted

\* C9: `info` exits with status 0 and prints the table: the columns
\* Property and Value, then exactly the three rows Name, Version,
\* Description in this order, the Name row holding the project name token;
\* also when other invocations came before it.
C9_InfoTable ==
    (Exited /\ argv = <<<<"i","n","f","o">>>>) =>
        /\ exit_code = 0
        /\ ran = "info"
        /\ Len(stdout) = 5
        /\ stdout[2] = <<"P","r","o","p","e","r","t","y"," ","|"," ","V","a","l","u","e">>
        /\ stdout[3] = <<"N","a","m","e"," ","|"," ","{","{","P","R","O","J","E","C","T","_","N","A","M","E","}","}">>
        /\ IsPrefix(<<"V","e","r","s","i","o","n"," ","|"," ">>, stdout[4])
        /\ IsPrefix(<<"D","e","s","c","r","i","p","t","i","o","n"," ","|"," ">>, stdout[5])

C9_Witness ==
    /\ Exited
    /\ argv = <<<<"i","n","f","o">>>>
    /\ runs > 1
    /\ Len(stdout) = 5
    /\ exit_code = 0

\* C10: for every integer n in -MaxCount..MaxCount, `hello --count n` is
\* accepted, exits with status 0 and prints max(0, n) lines: none for 0 and
\* none for a negative n.
C10_MaxZeroCount ==
    \A n \in (0 - MaxCount)..MaxCount :
        (Exited /\ argv = <<<<"h","e","l","l","o">>, OptCount, IntStr(n)>>) =>
            /\ ran = "hello"
            /\ exit_code = 0
            /\ Len(stdout) = Max(0, n)

C10_Witness ==
    /\ Exited
    /\ argv = <<<<"h","e","l","l","o">>, OptCount, IntStr(-1)>>
    /\ ran = "hello"
    /\ stdout = << >>
    /\ exit_code = 0

=============================================================================
